---- MODULE Spec2Model ----
(***************************************************************************)
(* Model of langchain/chains/combine_documents/refine.py.                  *)
(*                                                                         *)
(* Three runs over the same caller inputs are modelled side by side:       *)
(*   - the LCEL chain built by create_refine_documents_chain (lc_ state),  *)
(*   - RefineDocumentsChain.combine_docs (cd_ state),                      *)
(*   - RefineDocumentsChain.acombine_docs (ac_ state), split at its awaits.*)
(* Python dicts are functions on a set of string keys; texts are sequences *)
(* of string tokens; Python's 0-based list index i is element i + 1.       *)
(***************************************************************************)
EXTENDS Integers, Sequences, FiniteSets, TLC

\* ------------------------------------------------------------------ bounds
MaxDocs == 3

\* --------------------------------------------------------------- constants
OUTPUT_KEY == "output"
DOCUMENTS_KEY == "context"
INTERMEDIATE_STEPS_KEY == "intermediate_steps"

\* RefineDocumentsChain.initial_response_name, configured with the name the
\* LCEL chain uses, so that both chains take the same named values
initial_response_name == "output"
\* BaseCombineDocumentsChain.output_key
output_key == "output_text"

\* ------------------------------------------------------------ input space
\* Documents: page_content plus a metadata mapping.
DocA == [page_content |-> "A", metadata |-> [source |-> "m"]]
DocB == [page_content |-> "B", metadata |-> << >>]
Documents == {DocA, DocB}

DocLists == UNION {[1..n -> Documents] : n \in 0..MaxDocs}

\* document_prompt, given by its input_variables in template order
DocumentPrompts == {<<"page_content">>, <<"page_content", "source">>}

\* extra named values of the caller: **kwargs of combine_docs /
\* acombine_docs, extra keys of the LCEL chain's input dict
KwargNames == {"question", DOCUMENTS_KEY, initial_response_name}
KwargSets == UNION {[S -> {<<"kw">>}] : S \in SUBSET KwargNames}

\* The model call that raises, counted from 0 within a run. A run makes at
\* most MaxDocs calls, so with failAt = MaxDocs the model never raises.
FailPoints == 0 .. MaxDocs

NoResult == << >>

VARIABLES
    docs, kwargs, return_intermediate_steps, document_prompt, failAt,
    values, rc_built, lc_built, document_variable_name, ac_docs,
    lc_pc, lc_state, lc_steps, lc_iteration, lc_calls, lc_result,
    cd_pc, cd_i, cd_res, cd_refine_steps, cd_calls, cd_result,
    ac_pc, ac_i, ac_res, ac_refine_steps, ac_inputs, ac_calls, ac_result

inputVars ==
    <<docs, kwargs, return_intermediate_steps, document_prompt, failAt,
      values, rc_built, lc_built, document_variable_name, ac_docs>>
lcVars == <<lc_pc, lc_state, lc_steps, lc_iteration, lc_calls, lc_result>>
cdVars == <<cd_pc, cd_i, cd_res, cd_refine_steps, cd_calls, cd_result>>
acVars == <<ac_pc, ac_i, ac_res, ac_refine_steps, ac_inputs, ac_calls, ac_result>>
vars == <<inputVars, lcVars, cdVars, acVars>>

\* ------------------------------------------------------------ dict helpers
\* dict.get(k, default)
Get(d, k, default) == IF k \in DOMAIN d THEN d[k] ELSE default

\* the dict left by d.pop(k, default)
Pop(d, k) == [j \in DOMAIN d \ {k} |-> d[j]]

\* {**a, **b}: b's entries win
Merge(a, b) == b @@ a

\* {k: d[k] for k in keys if k in d}
Pick(d, keys) == [j \in DOMAIN d \cap keys |-> d[j]]

\* ------------------------------------------------- external collaborators
\* base_info of a document: page_content, overlaid by the metadata
BaseInfo(doc) == Merge([page_content |-> doc.page_content], doc.metadata)

\* a prompt variable the document cannot supply makes formatting raise
FormatRaises(doc, prompt) ==
    \E i \in 1..Len(prompt) : prompt[i] \notin DOMAIN BaseInfo(doc)

\* prompt.format(**document_info): the values, in template order
format_document(doc, prompt) ==
    [i \in 1..Len(prompt) |-> BaseInfo(doc)[prompt[i]]]

\* The language model: a deterministic function of the prompt variables it
\* is given. The generated text records what the model saw.
LlmRaises(k) == k = failAt

Question(inputs) == Get(inputs, "question", << >>)

initial_llm(inputs, docVar) ==
    <<"I", "(">> \o inputs[docVar] \o <<"?">> \o Question(inputs) \o <<")">>

refine_llm(inputs, docVar, answerVar) ==
    <<"R", "(">> \o inputs[docVar] \o <<"|">> \o inputs[answerVar]
        \o <<"?">> \o Question(inputs) \o <<")">>

\* one entry of a run's log of model invocations
Call(kind, docIndex, inputs, output) ==
    [kind |-> kind, doc |-> docIndex, inputs |-> inputs, output |-> output]

\* ------------------------------------------------- LCEL chain: helpers
\* the caller's input dict: the documents under "context", plus any other
\* named value the caller adds
LcelInput == Merge(kwargs, DOCUMENTS_KEY :> docs)

\* position len(intermediate_steps) read by _get_and_format_doc
_get_and_format_doc_index(inputs) ==
    Len(Get(inputs, INTERMEDIATE_STEPS_KEY, << >>))

\* IndexError of inputs[DOCUMENTS_KEY][...], or format_document raising
_get_and_format_doc_raises(inputs, prompt) ==
    \/ _get_and_format_doc_index(inputs) >= Len(inputs[DOCUMENTS_KEY])
    \/ FormatRaises(inputs[DOCUMENTS_KEY][_get_and_format_doc_index(inputs) + 1],
                    prompt)

\* the dict it returns (the one it was given, mutated)
_get_and_format_doc(inputs, prompt) ==
    Merge(Pop(inputs, INTERMEDIATE_STEPS_KEY),
          DOCUMENTS_KEY :>
              format_document(
                  inputs[DOCUMENTS_KEY][_get_and_format_doc_index(inputs) + 1],
                  prompt))

\* variant: the loop starts at range(1, ...), one stage too many
_runnable_loop_from_one(inputs) ==
    IF Len(inputs[DOCUMENTS_KEY]) < 2
    THEN 0
    ELSE 1 + Cardinality(1 .. (Len(inputs[DOCUMENTS_KEY]) - 1))

\* number of refine_step stages in the chain _runnable_loop returns
\* (0: RunnablePassthrough)
_runnable_loop(inputs) ==
    IF Len(inputs[DOCUMENTS_KEY]) < 2
    THEN 0
    ELSE 1 + Cardinality(2 .. (Len(inputs[DOCUMENTS_KEY]) - 1))

_update_intermediate_steps(inputs) ==
    Get(inputs, INTERMEDIATE_STEPS_KEY, << >>) \o <<inputs[OUTPUT_KEY]>>

\* RunnablePassthrough.assign: {**input, **mapper.invoke(input)}
RunnableAssign(input, mapped) == Merge(input, mapped)

\* .pick(keys)
RunnablePick(input, keys) == Pick(input, keys)

\* The two branches of refine_step run in parallel on one dict object:
\* _update_intermediate_steps reads it either before or after
\* _get_and_format_doc has popped intermediate_steps from it.
BranchOrders == {"update_first", "format_first"}

SeenByUpdate(input, order) ==
    IF order = "update_first" THEN input
    ELSE Pop(input, INTERMEDIATE_STEPS_KEY)

\* ------------------------------------------------------ construction
\* base.validate_prompt: every document variable must be an input variable
validate_prompt_raises(prompt, document_variables) ==
    \E v \in document_variables :
        \A i \in 1..Len(prompt) : prompt[i] # v

\* lines 93-94
create_refine_documents_chain_raises(initial_prompt, refine_prompt) ==
    \/ validate_prompt_raises(initial_prompt, {DOCUMENTS_KEY})
    \/ validate_prompt_raises(refine_prompt, {DOCUMENTS_KEY, OUTPUT_KEY})

\* root validator, lines 242-248
get_return_intermediate_steps(vals) ==
    IF "return_refine_steps" \in DOMAIN vals
    THEN Merge(Pop(vals, "return_refine_steps"),
               "return_intermediate_steps" :> vals["return_refine_steps"])
    ELSE vals

\* variant: with several variables the first one is taken
get_default_document_variable_name_raises_lenient(vals) ==
    IF "document_variable_name" \notin DOMAIN vals
    THEN Len(vals["initial_prompt"]) = 0
    ELSE \A i \in 1..Len(vals["initial_prompt"]) :
             vals["initial_prompt"][i] # vals["document_variable_name"]

\* root validator, lines 250-269: the ValueError cases
get_default_document_variable_name_raises(vals) ==
    IF "document_variable_name" \notin DOMAIN vals
    THEN Len(vals["initial_prompt"]) # 1
    ELSE \A i \in 1..Len(vals["initial_prompt"]) :
             vals["initial_prompt"][i] # vals["document_variable_name"]

\* root validator, lines 250-269: the values it returns
get_default_document_variable_name(vals) ==
    IF "document_variable_name" \notin DOMAIN vals
    THEN Merge(vals, "document_variable_name" :> vals["initial_prompt"][1])
    ELSE vals

\* create_refine_documents_chain(llm, initial_prompt, refine_prompt)
create_refine_documents_chain ==
    /\ lc_built = "no"
    /\ lc_built' =
           (IF create_refine_documents_chain_raises(values["initial_prompt"],
                                                    values["refine_prompt"])
            THEN "error" ELSE "ok")
    /\ UNCHANGED <<docs, kwargs, return_intermediate_steps, document_prompt,
                   failAt, values, rc_built, document_variable_name, ac_docs>>
    /\ UNCHANGED <<lcVars, cdVars, acVars>>

\* RefineDocumentsChain(**values): the root validators, then the fields
RefineDocumentsChain_init ==
    /\ rc_built = "no"
    /\ LET renamed == get_return_intermediate_steps(values)
       IN  IF \/ get_default_document_variable_name_raises(renamed)
              \/ "initial_response_name" \notin DOMAIN renamed
           THEN /\ rc_built' = "error"
                /\ UNCHANGED <<document_variable_name,
                               return_intermediate_steps>>
           ELSE LET fields == get_default_document_variable_name(renamed)
                IN  /\ rc_built' = "ok"
                    /\ document_variable_name' =
                           fields["document_variable_name"]
                    /\ return_intermediate_steps' =
                           Get(fields, "return_intermediate_steps", FALSE)
    /\ UNCHANGED <<docs, kwargs, document_prompt, failAt, values, lc_built,
                   ac_docs>>
    /\ UNCHANGED <<lcVars, cdVars, acVars>>

\* ------------------------------------------------- LCEL chain: actions
\* RunnablePassthrough.assign(output=initial_response)
lcel_initial_response ==
    /\ lc_built = "ok"
    /\ lc_pc = "start"
    /\ IF \/ _get_and_format_doc_raises(lc_state, document_prompt)
          \/ LlmRaises(Len(lc_calls))
       THEN /\ lc_pc' = "error"
            /\ UNCHANGED <<lc_state, lc_calls>>
       ELSE LET formatted == _get_and_format_doc(lc_state, document_prompt)
                output == initial_llm(formatted, DOCUMENTS_KEY)
            IN  /\ lc_calls' = Append(lc_calls,
                       Call("initial", _get_and_format_doc_index(lc_state),
                            formatted, output))
                /\ lc_state' = RunnableAssign(lc_state, OUTPUT_KEY :> output)
                /\ lc_pc' = "loop"
    /\ UNCHANGED <<lc_steps, lc_iteration, lc_result>>
    /\ UNCHANGED <<inputVars, cdVars, acVars>>

\* refine_loop: RunnableLambda(_runnable_loop) builds the sequence of steps
lcel_refine_loop ==
    /\ lc_pc = "loop"
    /\ lc_steps' = _runnable_loop(lc_state)
    /\ lc_iteration' = 1
    /\ lc_pc' = "refine"
    /\ UNCHANGED <<lc_state, lc_calls, lc_result>>
    /\ UNCHANGED <<inputVars, cdVars, acVars>>

\* refine_step: RunnablePassthrough.assign(
\*     intermediate_steps=_update_intermediate_steps, output=refine_response)
\* applied to one input dict; order is the order in which the two branches
\* of the parallel mapper touch that dict
refine_step(input, order) ==
    RunnableAssign(input,
        (INTERMEDIATE_STEPS_KEY :>
             _update_intermediate_steps(SeenByUpdate(input, order)))
        @@ (OUTPUT_KEY :>
             refine_llm(_get_and_format_doc(input, document_prompt),
                        DOCUMENTS_KEY, OUTPUT_KEY)))

\* refine_step_{iteration} of the sequence built by _runnable_loop
lcel_refine_step ==
    /\ lc_pc = "refine"
    /\ lc_iteration <= lc_steps
    /\ \E order \in BranchOrders :
         IF \/ _get_and_format_doc_raises(lc_state, document_prompt)
            \/ LlmRaises(Len(lc_calls))
         THEN /\ lc_pc' = "error"
              /\ UNCHANGED <<lc_state, lc_calls, lc_iteration>>
         ELSE LET formatted == _get_and_format_doc(lc_state, document_prompt)
                  output == refine_llm(formatted, DOCUMENTS_KEY, OUTPUT_KEY)
              IN  /\ lc_calls' = Append(lc_calls,
                         Call("refine", _get_and_format_doc_index(lc_state),
                              formatted, output))
                  /\ lc_state' = refine_step(lc_state, order)
                  /\ lc_iteration' = lc_iteration + 1
                  /\ lc_pc' = "refine"
    /\ UNCHANGED <<lc_steps, lc_result>>
    /\ UNCHANGED <<inputVars, cdVars, acVars>>

\* .pick([OUTPUT_KEY, INTERMEDIATE_STEPS_KEY]) after the last stage
lcel_pick ==
    /\ lc_pc = "refine"
    /\ lc_iteration > lc_steps
    /\ lc_result' = RunnablePick(lc_state, {OUTPUT_KEY, INTERMEDIATE_STEPS_KEY})
    /\ lc_pc' = "done"
    /\ UNCHANGED <<lc_state, lc_steps, lc_iteration, lc_calls>>
    /\ UNCHANGED <<inputVars, cdVars, acVars>>

\* ---------------------------------------- RefineDocumentsChain: helpers
\* docs[0] of an empty list, or a document_prompt variable missing from
\* base_info
_construct_initial_inputs_raises(ds, kw) ==
    \/ Len(ds) = 0
    \/ FormatRaises(ds[1], document_prompt)

\* variant: the caller's keyword arguments are not passed on
_construct_initial_inputs_without_kwargs(ds, kw) ==
    document_variable_name :>
        [i \in 1..Len(document_prompt) |->
            BaseInfo(ds[1])[document_prompt[i]]]

_construct_initial_inputs(ds, kw) ==
    Merge(document_variable_name :>
              [i \in 1..Len(document_prompt) |->
                  BaseInfo(ds[1])[document_prompt[i]]],
          kw)

\* variant: the two values stored under each other's name
_construct_refine_inputs_swapped(doc, res) ==
    (document_variable_name :> res)
        @@ (initial_response_name :> format_document(doc, document_prompt))

_construct_refine_inputs(doc, res) ==
    (document_variable_name :> format_document(doc, document_prompt))
        @@ (initial_response_name :> res)

\* variant: the flag is not consulted
_construct_result_always(refine_steps, res) ==
    <<res, [intermediate_steps |-> refine_steps]>>

_construct_result(refine_steps, res) ==
    IF return_intermediate_steps
    THEN <<res, [intermediate_steps |-> refine_steps]>>
    ELSE <<res, << >> >>

\* BaseCombineDocumentsChain.output_keys
base_output_keys == <<output_key>>

output_keys ==
    IF return_intermediate_steps
    THEN base_output_keys \o <<"intermediate_steps">>
    ELSE base_output_keys

\* ----------------------------------------------- combine_docs: actions
\* variant: an empty list gives an empty result
combine_docs_initial_empty_result ==
    /\ rc_built = "ok"
    /\ cd_pc = "start"
    /\ IF Len(docs) = 0
       THEN /\ cd_result' = _construct_result(<< >>, << >>)
            /\ cd_pc' = "done"
            /\ UNCHANGED <<cd_i, cd_res, cd_refine_steps, cd_calls>>
       ELSE /\ UNCHANGED cd_result
            /\ IF \/ _construct_initial_inputs_raises(docs, kwargs)
                  \/ LlmRaises(Len(cd_calls))
               THEN /\ cd_pc' = "error"
                    /\ UNCHANGED <<cd_i, cd_res, cd_refine_steps, cd_calls>>
               ELSE LET inputs == _construct_initial_inputs(docs, kwargs)
                        res == initial_llm(inputs, document_variable_name)
                    IN  /\ cd_calls' = Append(cd_calls,
                                              Call("initial", 0, inputs, res))
                        /\ cd_res' = res
                        /\ cd_refine_steps' = <<res>>
                        /\ cd_i' = 1
                        /\ cd_pc' = "loop"
    /\ UNCHANGED <<inputVars, lcVars, acVars>>

\* lines 286-288: initial inputs, initial_llm_chain.predict, refine_steps
combine_docs_initial ==
    /\ rc_built = "ok"
    /\ cd_pc = "start"
    /\ IF \/ _construct_initial_inputs_raises(docs, kwargs)
          \/ LlmRaises(Len(cd_calls))
       THEN /\ cd_pc' = "error"
            /\ UNCHANGED <<cd_i, cd_res, cd_refine_steps, cd_calls>>
       ELSE LET inputs == _construct_initial_inputs(docs, kwargs)
                res == initial_llm(inputs, document_variable_name)
            IN  /\ cd_calls' = Append(cd_calls, Call("initial", 0, inputs, res))
                /\ cd_res' = res
                /\ cd_refine_steps' = <<res>>
                /\ cd_i' = 1
                /\ cd_pc' = "loop"
    /\ UNCHANGED cd_result
    /\ UNCHANGED <<inputVars, lcVars, acVars>>

\* variant: a raising step is swallowed and the loop moves on
combine_docs_refine_swallowing ==
    /\ cd_pc = "loop"
    /\ cd_i < Len(docs)
    /\ IF \/ FormatRaises(docs[cd_i + 1], document_prompt)
          \/ LlmRaises(Len(cd_calls))
       THEN /\ cd_i' = cd_i + 1
            /\ UNCHANGED <<cd_pc, cd_res, cd_refine_steps, cd_calls>>
       ELSE LET base_inputs == _construct_refine_inputs(docs[cd_i + 1], cd_res)
                inputs == Merge(base_inputs, kwargs)
                res == refine_llm(inputs, document_variable_name,
                                  initial_response_name)
            IN  /\ cd_calls' = Append(cd_calls,
                                      Call("refine", cd_i, inputs, res))
                /\ cd_res' = res
                /\ cd_refine_steps' = Append(cd_refine_steps, res)
                /\ cd_i' = cd_i + 1
                /\ cd_pc' = "loop"
    /\ UNCHANGED cd_result
    /\ UNCHANGED <<inputVars, lcVars, acVars>>

\* lines 289-293: one iteration of "for doc in docs[1:]"
combine_docs_refine ==
    /\ cd_pc = "loop"
    /\ cd_i < Len(docs)
    /\ IF \/ FormatRaises(docs[cd_i + 1], document_prompt)
          \/ LlmRaises(Len(cd_calls))
       THEN /\ cd_pc' = "error"
            /\ UNCHANGED <<cd_i, cd_res, cd_refine_steps, cd_calls>>
       ELSE LET base_inputs == _construct_refine_inputs(docs[cd_i + 1], cd_res)
                inputs == Merge(base_inputs, kwargs)
                res == refine_llm(inputs, document_variable_name,
                                  initial_response_name)
            IN  /\ cd_calls' = Append(cd_calls,
                                      Call("refine", cd_i, inputs, res))
                /\ cd_res' = res
                /\ cd_refine_steps' = Append(cd_refine_steps, res)
                /\ cd_i' = cd_i + 1
                /\ cd_pc' = "loop"
    /\ UNCHANGED cd_result
    /\ UNCHANGED <<inputVars, lcVars, acVars>>

\* variant: the loop is left one document too late
combine_docs_return_late ==
    /\ cd_pc = "loop"
    /\ cd_i > Len(docs)
    /\ cd_result' = _construct_result(cd_refine_steps, cd_res)
    /\ cd_pc' = "done"
    /\ UNCHANGED <<cd_i, cd_res, cd_refine_steps, cd_calls>>
    /\ UNCHANGED <<inputVars, lcVars, acVars>>

\* line 294
combine_docs_return ==
    /\ cd_pc = "loop"
    /\ cd_i >= Len(docs)
    /\ cd_result' = _construct_result(cd_refine_steps, cd_res)
    /\ cd_pc' = "done"
    /\ UNCHANGED <<cd_i, cd_res, cd_refine_steps, cd_calls>>
    /\ UNCHANGED <<inputVars, lcVars, acVars>>

\* ---------------------------------------------- acombine_docs: actions
\* lines 312-313, up to the await: the call is in flight
acombine_docs_initial ==
    /\ rc_built = "ok"
    /\ ac_pc = "start"
    /\ IF _construct_initial_inputs_raises(ac_docs, kwargs)
       THEN /\ ac_pc' = "error"
            /\ UNCHANGED ac_inputs
       ELSE /\ ac_inputs' = _construct_initial_inputs(ac_docs, kwargs)
            /\ ac_pc' = "await_initial"
    /\ UNCHANGED <<ac_i, ac_res, ac_refine_steps, ac_calls, ac_result>>
    /\ UNCHANGED <<inputVars, lcVars, cdVars>>

\* variant: refine_steps is kept on the chain object, which the runs share
acombine_docs_initial_resume_shared_steps ==
    /\ ac_pc = "await_initial"
    /\ IF LlmRaises(Len(ac_calls))
       THEN /\ ac_pc' = "error"
            /\ UNCHANGED <<ac_i, ac_res, ac_refine_steps, ac_calls>>
            /\ UNCHANGED cd_refine_steps
       ELSE LET res == initial_llm(ac_inputs, document_variable_name)
            IN  /\ ac_calls' = Append(ac_calls,
                                      Call("initial", 0, ac_inputs, res))
                /\ ac_res' = res
                /\ ac_refine_steps' = <<res>>
                /\ cd_refine_steps' = <<res>>
                /\ ac_i' = 1
                /\ ac_pc' = "loop"
    /\ UNCHANGED <<ac_inputs, ac_result>>
    /\ UNCHANGED <<cd_pc, cd_i, cd_res, cd_calls, cd_result>>
    /\ UNCHANGED <<inputVars, lcVars>>

\* lines 313-314: the awaited apredict returns or raises
acombine_docs_initial_resume ==
    /\ ac_pc = "await_initial"
    /\ IF LlmRaises(Len(ac_calls))
       THEN /\ ac_pc' = "error"
            /\ UNCHANGED <<ac_i, ac_res, ac_refine_steps, ac_calls>>
       ELSE LET res == initial_llm(ac_inputs, document_variable_name)
            IN  /\ ac_calls' = Append(ac_calls,
                                      Call("initial", 0, ac_inputs, res))
                /\ ac_res' = res
                /\ ac_refine_steps' = <<res>>
                /\ ac_i' = 1
                /\ ac_pc' = "loop"
    /\ UNCHANGED <<ac_inputs, ac_result>>
    /\ UNCHANGED <<inputVars, lcVars, cdVars>>

\* variant: the step's own inputs win over the keyword arguments
acombine_docs_refine_base_first ==
    /\ ac_pc = "loop"
    /\ ac_i < Len(ac_docs)
    /\ IF FormatRaises(ac_docs[ac_i + 1], document_prompt)
       THEN /\ ac_pc' = "error"
            /\ UNCHANGED ac_inputs
       ELSE LET base_inputs == _construct_refine_inputs(ac_docs[ac_i + 1], ac_res)
            IN  /\ ac_inputs' = Merge(kwargs, base_inputs)
                /\ ac_pc' = "await_refine"
    /\ UNCHANGED <<ac_i, ac_res, ac_refine_steps, ac_calls, ac_result>>
    /\ UNCHANGED <<inputVars, lcVars, cdVars>>

\* lines 315-318, up to the await
acombine_docs_refine ==
    /\ ac_pc = "loop"
    /\ ac_i < Len(ac_docs)
    /\ IF FormatRaises(ac_docs[ac_i + 1], document_prompt)
       THEN /\ ac_pc' = "error"
            /\ UNCHANGED ac_inputs
       ELSE LET base_inputs == _construct_refine_inputs(ac_docs[ac_i + 1], ac_res)
            IN  /\ ac_inputs' = Merge(base_inputs, kwargs)
                /\ ac_pc' = "await_refine"
    /\ UNCHANGED <<ac_i, ac_res, ac_refine_steps, ac_calls, ac_result>>
    /\ UNCHANGED <<inputVars, lcVars, cdVars>>

\* variant: the new output is not appended to refine_steps
acombine_docs_refine_resume_no_append ==
    /\ ac_pc = "await_refine"
    /\ IF LlmRaises(Len(ac_calls))
       THEN /\ ac_pc' = "error"
            /\ UNCHANGED <<ac_i, ac_res, ac_calls>>
       ELSE LET res == refine_llm(ac_inputs, document_variable_name,
                                  initial_response_name)
            IN  /\ ac_calls' = Append(ac_calls,
                                      Call("refine", ac_i, ac_inputs, res))
                /\ ac_res' = res
                /\ ac_i' = ac_i + 1
                /\ ac_pc' = "loop"
    /\ UNCHANGED <<ac_refine_steps, ac_inputs, ac_result>>
    /\ UNCHANGED <<inputVars, lcVars, cdVars>>

\* lines 318-319: the awaited apredict returns or raises
acombine_docs_refine_resume ==
    /\ ac_pc = "await_refine"
    /\ IF LlmRaises(Len(ac_calls))
       THEN /\ ac_pc' = "error"
            /\ UNCHANGED <<ac_i, ac_res, ac_refine_steps, ac_calls>>
       ELSE LET res == refine_llm(ac_inputs, document_variable_name,
                                  initial_response_name)
            IN  /\ ac_calls' = Append(ac_calls,
                                      Call("refine", ac_i, ac_inputs, res))
                /\ ac_res' = res
                /\ ac_refine_steps' = Append(ac_refine_steps, res)
                /\ ac_i' = ac_i + 1
                /\ ac_pc' = "loop"
    /\ UNCHANGED <<ac_inputs, ac_result>>
    /\ UNCHANGED <<inputVars, lcVars, cdVars>>

\* line 320
acombine_docs_return ==
    /\ ac_pc = "loop"
    /\ ac_i >= Len(ac_docs)
    /\ ac_result' = _construct_result(ac_refine_steps, ac_res)
    /\ ac_pc' = "done"
    /\ UNCHANGED <<ac_i, ac_res, ac_refine_steps, ac_inputs, ac_calls>>
    /\ UNCHANGED <<inputVars, lcVars, cdVars>>

\* ------------------------------------------------------- specification
\* what a run has before its first step
RunsInit ==
    /\ lc_pc = "start"
    /\ lc_state = LcelInput
    /\ lc_steps = 0
    /\ lc_iteration = 0
    /\ lc_calls = << >>
    /\ lc_result = NoResult
    /\ cd_pc = "start"
    /\ cd_i = 0
    /\ cd_res = << >>
    /\ cd_refine_steps = << >>
    /\ cd_calls = << >>
    /\ cd_result = NoResult
    /\ ac_pc = "start"
    /\ ac_i = 0
    /\ ac_res = << >>
    /\ ac_refine_steps = << >>
    /\ ac_inputs = << >>
    /\ ac_calls = << >>
    /\ ac_result = NoResult

\* the configuration of the class docstring's example, with the variable
\* names of the LCEL chain: both prompts take every value they are given
ExampleValues(flag) ==
    [initial_prompt |-> <<"context", "question">>,
     refine_prompt |-> <<"context", "output", "question">>,
     document_variable_name |-> "context",
     initial_response_name |-> initial_response_name,
     return_intermediate_steps |-> flag]

\* both chains are constructed; the three runs get the same arguments
Init ==
    /\ docs \in DocLists
    /\ ac_docs = docs
    /\ kwargs \in KwargSets
    /\ return_intermediate_steps \in BOOLEAN
    /\ document_prompt \in DocumentPrompts
    /\ failAt \in FailPoints
    /\ values = ExampleValues(return_intermediate_steps)
    /\ rc_built = "ok"
    /\ lc_built = "ok"
    /\ document_variable_name = "context"
    /\ RunsInit

Next ==
    \/ lcel_initial_response
    \/ lcel_refine_loop
    \/ lcel_refine_step
    \/ lcel_pick
    \/ combine_docs_initial
    \/ combine_docs_refine
    \/ combine_docs_return
    \/ acombine_docs_initial
    \/ acombine_docs_initial_resume
    \/ acombine_docs_refine
    \/ acombine_docs_refine_resume
    \/ acombine_docs_return

Spec == Init /\ [][Next]_vars

\* ------------------------------------- specification with construction
\* input_variables of the initial and of the refine prompt
InitialPrompts ==
    {<< >>, <<"context">>, <<"question">>,
     <<"context", "question">>, <<"question", "context">>}

RefinePrompts == {<< >>, <<"context">>, <<"output">>, <<"context", "output">>}

\* optional constructor arguments: a designated document variable, and the
\* flag under its current or its old name
Designations ==
    {<< >>} \cup {[document_variable_name |-> v] : v \in {"context", "question"}}

FlagArguments ==
    {<< >>, [return_intermediate_steps |-> TRUE], [return_refine_steps |-> TRUE]}

ConstructorValues ==
    {[initial_prompt |-> ip, refine_prompt |-> rp,
      initial_response_name |-> initial_response_name] @@ d @@ f :
        ip \in InitialPrompts, rp \in RefinePrompts,
        d \in Designations, f \in FlagArguments}

TemplateVariables(vals) ==
    {vals["initial_prompt"][i] : i \in 1..Len(vals["initial_prompt"])}
        \cup {vals["refine_prompt"][i] : i \in 1..Len(vals["refine_prompt"])}

\* the variable the imperative chain fills with the document, if any
DocumentVariables(vals) ==
    IF "document_variable_name" \in DOMAIN vals
    THEN {vals["document_variable_name"]}
    ELSE IF Len(vals["initial_prompt"]) = 1
         THEN {vals["initial_prompt"][1]}
         ELSE {}

\* the caller passes every template variable that a chain does not fill in
CallerSupplies(kw, vals) ==
    /\ TemplateVariables(vals) \ ({OUTPUT_KEY} \cup DocumentVariables(vals))
           \subseteq DOMAIN kw
    /\ TemplateVariables(vals) \ {OUTPUT_KEY, DOCUMENTS_KEY} \subseteq DOMAIN kw

\* nothing is constructed yet; the runs wait for their chain
ConstructInit ==
    /\ values \in ConstructorValues
    /\ docs \in {ds \in DocLists : \A i \in 1..Len(ds) : ds[i] = DocA}
    /\ ac_docs = docs
    /\ kwargs \in {kw \in KwargSets : CallerSupplies(kw, values)}
    /\ return_intermediate_steps = FALSE
    /\ document_prompt = <<"page_content">>
    /\ failAt = MaxDocs
    /\ rc_built = "no"
    /\ lc_built = "no"
    /\ document_variable_name = ""
    /\ RunsInit

ConstructNext ==
    \/ create_refine_documents_chain
    \/ RefineDocumentsChain_init
    \/ Next

ConstructSpec == ConstructInit /\ [][ConstructNext]_vars

\* ------------------------------------------------------------ properties
N == Len(docs)

Last(s) == s[Len(s)]

\* the k-th model call of a run formatted document k (0-based)
InDocumentOrder(calls) == \A k \in 1..Len(calls) : calls[k].doc = k - 1

\* the outputs of a run's model calls, in the order they were generated
Outputs(calls) == [k \in 1..Len(calls) |-> calls[k].output]

\* C1: in every run, step i formats and sends document i, and a completed
\* run has sent each of the N documents exactly once, in order.
C1_EachStepSendsItsDocument ==
    /\ InDocumentOrder(lc_calls)
    /\ InDocumentOrder(cd_calls)
    /\ InDocumentOrder(ac_calls)
    /\ lc_pc = "done" => Len(lc_calls) = N
    /\ cd_pc = "done" => Len(cd_calls) = N
    /\ ac_pc = "done" => Len(ac_calls) = N

\* C2: whenever a completed run reports intermediate steps, the final
\* output equals the last intermediate step.
C2_FinalIsLastIntermediateStep ==
    /\ (lc_pc = "done" /\ INTERMEDIATE_STEPS_KEY \in DOMAIN lc_result)
           => lc_result[OUTPUT_KEY] = Last(lc_result[INTERMEDIATE_STEPS_KEY])
    /\ (cd_pc = "done" /\ return_intermediate_steps)
           => cd_result[1] = Last(cd_result[2].intermediate_steps)
    /\ (ac_pc = "done" /\ return_intermediate_steps)
           => ac_result[1] = Last(ac_result[2].intermediate_steps)

\* C3: whenever a completed run over N >= 1 documents reports intermediate
\* steps, they are the N raw outputs of the run's steps, in generation order.
C3_IntermediateStepsAreAllOutputs ==
    /\ (lc_pc = "done" /\ INTERMEDIATE_STEPS_KEY \in DOMAIN lc_result)
           => /\ Len(lc_result[INTERMEDIATE_STEPS_KEY]) = N
              /\ lc_result[INTERMEDIATE_STEPS_KEY] = Outputs(lc_calls)
    /\ (cd_pc = "done" /\ return_intermediate_steps)
           => /\ Len(cd_result[2].intermediate_steps) = N
              /\ cd_result[2].intermediate_steps = Outputs(cd_calls)
    /\ (ac_pc = "done" /\ return_intermediate_steps)
           => /\ Len(ac_result[2].intermediate_steps) = N
              /\ ac_result[2].intermediate_steps = Outputs(ac_calls)

\* what one model call was about: the document taken, its formatted text
\* and the prior answer handed to the model
Step(call, docVar, answerVar) ==
    <<call.kind, call.doc, call.inputs[docVar],
      IF call.kind = "refine" THEN call.inputs[answerVar] ELSE << >> >>

Steps(calls, docVar, answerVar) ==
    [k \in 1..Len(calls) |-> Step(calls[k], docVar, answerVar)]

\* the caller passes the two chains the same values: no keyword argument
\* stands in for the document or the prior answer
SameInputs == DOMAIN kwargs \subseteq {"question"}

\* C4: over the same inputs the LCEL chain and combine_docs with
\* intermediate steps requested make the same model calls and return the
\* same output and the same intermediate_steps.
C4_ChainsEquivalent ==
    (/\ lc_pc = "done"
     /\ cd_pc = "done"
     /\ return_intermediate_steps
     /\ SameInputs)
        => /\ Steps(lc_calls, DOCUMENTS_KEY, OUTPUT_KEY)
                = Steps(cd_calls, document_variable_name, initial_response_name)
           /\ lc_result[OUTPUT_KEY] = cd_result[1]
           /\ INTERMEDIATE_STEPS_KEY \in DOMAIN lc_result
           /\ lc_result[INTERMEDIATE_STEPS_KEY]
                = cd_result[2].intermediate_steps

\* every refine call of a run was handed, as its prior answer, the output
\* of the call before it
PriorAnswerIsPreviousOutput(calls, answerVar) ==
    \A k \in 2..Len(calls) :
        /\ calls[k].kind = "refine"
        /\ calls[k].inputs[answerVar] = calls[k - 1].output

\* every refine call of a run was handed the caller's keyword argument as
\* its prior answer
PriorAnswerIsKeywordArgument(calls, answerVar) ==
    \A k \in 2..Len(calls) :
        /\ calls[k].kind = "refine"
        /\ calls[k].inputs[answerVar] = kwargs[answerVar]

\* C5 as stated: in every run and whatever extra named values the caller
\* passes, refine step i receives exactly the output of step i-1 as its
\* prior answer.
C5_PriorAnswerAlwaysPreviousOutput ==
    /\ PriorAnswerIsPreviousOutput(lc_calls, OUTPUT_KEY)
    /\ PriorAnswerIsPreviousOutput(cd_calls, initial_response_name)
    /\ PriorAnswerIsPreviousOutput(ac_calls, initial_response_name)

\* C5 amended: refine step i receives exactly the output of step i-1 as its
\* prior answer, unless the caller of combine_docs / acombine_docs passes a
\* keyword argument named initial_response_name; then every refine step
\* receives that argument's value instead.
C5_PriorAnswerIsPreviousOutput ==
    /\ PriorAnswerIsPreviousOutput(lc_calls, OUTPUT_KEY)
    /\ initial_response_name \notin DOMAIN kwargs
           => /\ PriorAnswerIsPreviousOutput(cd_calls, initial_response_name)
              /\ PriorAnswerIsPreviousOutput(ac_calls, initial_response_name)
    /\ initial_response_name \in DOMAIN kwargs
           => /\ PriorAnswerIsKeywordArgument(cd_calls, initial_response_name)
              /\ PriorAnswerIsKeywordArgument(ac_calls, initial_response_name)

\* two refine steps have run in each chain, no keyword argument interfering
C5_Witness ==
    /\ initial_response_name \notin DOMAIN kwargs
    /\ Len(lc_calls) >= 3
    /\ Len(cd_calls) >= 3
    /\ Len(ac_calls) >= 3

\* one initial invocation followed by refine invocations only
InitialThenRefines(calls) ==
    \A k \in 1..Len(calls) :
        calls[k].kind = (IF k = 1 THEN "initial" ELSE "refine")

\* C6: a successful run over N documents makes exactly N model invocations,
\* one initial and then N-1 refine ones; the LCEL refine loop is built with
\* N-1 steps, none when N < 2.
C6_ExactlyNInvocations ==
    /\ lc_pc \in {"refine", "done"}
           => lc_steps = (IF N < 2 THEN 0 ELSE N - 1)
    /\ lc_pc = "done"
           => N >= 1 /\ Len(lc_calls) = N /\ InitialThenRefines(lc_calls)
    /\ cd_pc = "done"
           => N >= 1 /\ Len(cd_calls) = N /\ InitialThenRefines(cd_calls)
    /\ ac_pc = "done"
           => N >= 1 /\ Len(ac_calls) = N /\ InitialThenRefines(ac_calls)

\* all three runs completed over three documents
C6_Witness ==
    /\ N >= 3
    /\ lc_pc = "done"
    /\ cd_pc = "done"
    /\ ac_pc = "done"

StepRaises(k) ==
    \/ LlmRaises(k)
    \/ k < N /\ FormatRaises(docs[k + 1], document_prompt)
    \/ k = 0 /\ N = 0

RaisingSteps == {k \in 0..N : (k < N \/ k = 0) /\ StepRaises(k)}

FirstRaisingStep == CHOOSE k \in RaisingSteps : \A j \in RaisingSteps : k <= j

\* what holds of a run of the imperative chain once a step has raised, and
\* of one that returned
ErrorReachesCaller(pc, calls, result) ==
    /\ pc = "error"
           => /\ RaisingSteps # {}
              /\ Len(calls) = FirstRaisingStep
              /\ result = NoResult
    /\ pc = "done" => RaisingSteps = {}
    /\ result # NoResult => pc = "done"

\* a run that raised makes no further call and returns nothing
Aborted(pc, calls, result) ==
    pc = "error" => (pc' = "error" /\ calls' = calls /\ result' = result)

C8_State ==
    /\ ErrorReachesCaller(cd_pc, cd_calls, cd_result)
    /\ ErrorReachesCaller(ac_pc, ac_calls, ac_result)
    /\ lc_pc = "error"
           => /\ Len(lc_calls) = lc_iteration
              /\ lc_result = NoResult
    /\ lc_pc = "done" => \A k \in 0..(N - 1) : ~LlmRaises(k)
    /\ lc_result # NoResult => lc_pc = "done"

C8_Step ==
    /\ Aborted(cd_pc, cd_calls, cd_result)
    /\ Aborted(ac_pc, ac_calls, ac_result)
    /\ Aborted(lc_pc, lc_calls, lc_result)

\* C8: when step k of a run raises, the run ends in error with exactly the k
\* earlier model invocations made, it returns no result (no final text, no
\* intermediate list), and from then on it neither retries nor invokes the
\* model for a later document.
C8_ErrorAbortsRun == [](C8_State) /\ [][C8_Step]_vars

\* both imperative runs raised at their third step, after two invocations,
\* with a partly built intermediate list that is not returned
C8_Witness ==
    /\ cd_pc = "error"
    /\ ac_pc = "error"
    /\ Len(cd_calls) = 2
    /\ Len(ac_calls) = 2
    /\ Len(cd_refine_steps) = 2
    /\ N >= 3

\* C9: combine_docs and acombine_docs make the same model calls with the
\* same inputs, hold the same res / refine_steps after the same number of
\* steps, and end the same way with the same result.
C9_SyncAsyncEquivalent ==
    /\ \A k \in 1..Len(cd_calls) :
           k <= Len(ac_calls) => cd_calls[k] = ac_calls[k]
    /\ (cd_pc = "loop" /\ ac_pc = "loop" /\ cd_i = ac_i)
           => /\ cd_res = ac_res
              /\ cd_refine_steps = ac_refine_steps
    /\ (cd_pc \in {"done", "error"} /\ ac_pc \in {"done", "error"})
           => /\ cd_pc = ac_pc
              /\ cd_calls = ac_calls
              /\ cd_result = ac_result

\* both returned after three steps
C9_Witness ==
    /\ cd_pc = "done"
    /\ ac_pc = "done"
    /\ Len(cd_calls) >= 3
    /\ Len(ac_calls) >= 3
    /\ cd_result # NoResult

\* keys of the dict BaseCombineDocumentsChain returns for a result
\* (output, extra_return_dict): the extra keys plus output_key
ReturnedKeys(result) == DOMAIN result[2] \cup {output_key}

ExtraMatchesConfiguration(result) ==
    /\ ("intermediate_steps" \in DOMAIN result[2]) <=> return_intermediate_steps
    /\ ~return_intermediate_steps => DOMAIN result[2] = {}
    /\ ReturnedKeys(result) = {output_keys[k] : k \in 1..Len(output_keys)}

\* C10: the extra mapping returned by combine_docs / acombine_docs has the
\* intermediate_steps key exactly when return_intermediate_steps is set, is
\* empty otherwise, and the returned keys are those of output_keys.
C10_IntermediateStepsOnlyIfRequested ==
    /\ cd_pc = "done" => ExtraMatchesConfiguration(cd_result)
    /\ ac_pc = "done" => ExtraMatchesConfiguration(ac_result)

\* both returned without intermediate steps, after a refine step
C10_Witness ==
    /\ ~return_intermediate_steps
    /\ cd_pc = "done"
    /\ ac_pc = "done"
    /\ Len(cd_refine_steps) >= 2
    /\ cd_result[2] = << >>

\* the initial template's input variables
InitialVariables ==
    {values["initial_prompt"][i] : i \in 1..Len(values["initial_prompt"])}

RefineVariables ==
    {values["refine_prompt"][i] : i \in 1..Len(values["refine_prompt"])}

Designated == "document_variable_name" \in DOMAIN values

\* the two ways the claim lets construction succeed
DocumentVariableSettled ==
    \/ Designated /\ values["document_variable_name"] \in InitialVariables
    \/ ~Designated /\ Cardinality(InitialVariables) = 1

\* no step of combine_docs / acombine_docs has been taken
ImperativeUntouched ==
    /\ cd_pc = "start"
    /\ ac_pc = "start"
    /\ cd_calls = << >>
    /\ ac_calls = << >>

\* C11: RefineDocumentsChain is constructed only if the document variable is
\* designated and among the initial template's variables, or not designated
\* and the template has exactly one variable, which becomes the document
\* variable; otherwise construction fails and no document is processed and
\* no model is invoked.
C11_DocumentVariableValidated ==
    /\ rc_built = "ok"
           => /\ DocumentVariableSettled
              /\ document_variable_name \in InitialVariables
              /\ Designated
                   => document_variable_name = values["document_variable_name"]
              /\ ~Designated
                   => document_variable_name = values["initial_prompt"][1]
    /\ ~DocumentVariableSettled => rc_built # "ok"
    /\ rc_built # "ok" => ImperativeUntouched

\* construction failed on a two-variable template with no designation, while
\* the other chain was running
C11_Witness ==
    /\ rc_built = "error"
    /\ ~Designated
    /\ Len(values["initial_prompt"]) = 2
    /\ lc_pc = "done"

\* C12: either chain is constructed only if the initial template has the
\* document variable and the refine template has the document variable and
\* the prior-answer variable, so every step that runs uses a checked
\* template.
C12_BothTemplatesValidated ==
    /\ lc_built = "ok"
           => /\ DOCUMENTS_KEY \in InitialVariables
              /\ {DOCUMENTS_KEY, OUTPUT_KEY} \subseteq RefineVariables
    /\ rc_built = "ok"
           => /\ document_variable_name \in InitialVariables
              /\ {document_variable_name, initial_response_name}
                     \subseteq RefineVariables

\* a run that stopped with an error before any model call and returned
\* nothing
FailedBeforeAnyCall(pc, calls, result) ==
    /\ pc \in {"start", "error"}
    /\ calls = << >>
    /\ result = NoResult

\* C13: over an empty document list no run returns a result (empty or
\* otherwise) and no run invokes the model; the first step of each run ends
\* it with an error.
C13_EmptyListFails ==
    N = 0 =>
        /\ FailedBeforeAnyCall(lc_pc, lc_calls, lc_result)
        /\ FailedBeforeAnyCall(cd_pc, cd_calls, cd_result)
        /\ FailedBeforeAnyCall(ac_pc, ac_calls, ac_result)

\* the three runs over the empty list have all raised
C13_Witness ==
    /\ N = 0
    /\ lc_pc = "error"
    /\ cd_pc = "error"
    /\ ac_pc = "error"

\* every keyword argument is in the input of every model call of the run,
\* under its own name and with the caller's value
KwargsPassedThrough(calls) ==
    \A k \in 1..Len(calls) :
        \A name \in DOMAIN kwargs :
            /\ name \in DOMAIN calls[k].inputs
            /\ calls[k].inputs[name] = kwargs[name]

\* C14: in combine_docs and acombine_docs every keyword argument of the
\* caller is passed unchanged, under its own name, to the initial model call
\* and to every refine model call, the call in flight included.
C14_KwargsReachEveryCall ==
    /\ KwargsPassedThrough(cd_calls)
    /\ KwargsPassedThrough(ac_calls)
    /\ ac_pc \in {"await_initial", "await_refine"}
           => \A name \in DOMAIN kwargs :
                  /\ name \in DOMAIN ac_inputs
                  /\ ac_inputs[name] = kwargs[name]

\* both runs made an initial and two refine calls with a question passed in
C14_Witness ==
    /\ "question" \in DOMAIN kwargs
    /\ Len(cd_calls) >= 3
    /\ Len(ac_calls) >= 3
    /\ cd_calls[3].kind = "refine"

\* the refine step about to run on lc_state formats its document and
\* reaches the model's reply
RefineStepReturns ==
    /\ lc_pc = "refine"
    /\ lc_iteration <= lc_steps
    /\ ~_get_and_format_doc_raises(lc_state, document_prompt)

\* C16: the output and intermediate_steps a refine step of the LCEL chain
\* produces are the same whichever of its two parallel branches touches the
\* shared input dict first.
C16_BranchOrderIrrelevant ==
    RefineStepReturns =>
        \A o1, o2 \in BranchOrders :
            refine_step(lc_state, o1) = refine_step(lc_state, o2)

\* the caller's value where the caller passed one under that name, the
\* chain's own value otherwise
Supplied(name) == name \in DOMAIN kwargs

\* the model inputs of a run, where the caller's keyword arguments use the
\* document variable's or the prior answer's name
CallerValueWins(calls) ==
    \A k \in 1..Len(calls) :
        /\ Supplied(document_variable_name)
               => /\ calls[k].inputs[document_variable_name]
                         = kwargs[document_variable_name]
                  /\ calls[k].output =
                         IF k = 1
                         THEN initial_llm(
                                  Merge(calls[k].inputs,
                                        document_variable_name
                                            :> kwargs[document_variable_name]),
                                  document_variable_name)
                         ELSE refine_llm(
                                  Merge(calls[k].inputs,
                                        document_variable_name
                                            :> kwargs[document_variable_name]),
                                  document_variable_name, initial_response_name)
        /\ (Supplied(initial_response_name) /\ k > 1)
               => /\ calls[k].inputs[initial_response_name]
                         = kwargs[initial_response_name]
                  /\ calls[k].output =
                         refine_llm(
                             Merge(calls[k].inputs,
                                   initial_response_name
                                       :> kwargs[initial_response_name]),
                             document_variable_name, initial_response_name)

\* C18: in combine_docs and acombine_docs a keyword argument named like the
\* document variable replaces the formatted document in every step's model
\* input, and one named like the prior-answer variable replaces the prior
\* answer in every refine step's model input; the model's reply is computed
\* from the caller's value.
C18_CallerValueTakesPrecedence ==
    /\ CallerValueWins(cd_calls)
    /\ CallerValueWins(ac_calls)

\* both names are overridden, and a refine call was made with the caller's
\* values in place of the second document and of the first output
C18_Witness ==
    /\ Supplied(document_variable_name)
    /\ Supplied(initial_response_name)
    /\ Len(cd_calls) >= 2
    /\ Len(ac_calls) >= 2
    /\ kwargs[document_variable_name] # format_document(docs[2], document_prompt)
    /\ kwargs[initial_response_name] # cd_calls[1].output

IsPrefix(s, t) ==
    /\ Len(s) <= Len(t)
    /\ \A k \in 1..Len(s) : s[k] = t[k]

\* from one state to the next a list keeps its entries and gains at most
\* one, at the end
GrowsByAppending(old, new) ==
    /\ IsPrefix(old, new)
    /\ Len(new) <= Len(old) + 1

\* the intermediate list carried by the LCEL chain's running dict
lc_intermediate_steps == Get(lc_state, INTERMEDIATE_STEPS_KEY, << >>)

C19_Step ==
    /\ GrowsByAppending(cd_refine_steps, cd_refine_steps')
    /\ GrowsByAppending(ac_refine_steps, ac_refine_steps')
    /\ GrowsByAppending(lc_intermediate_steps, lc_intermediate_steps')

\* C19: in every run the intermediate list changes only by one output being
\* appended; earlier entries are never removed, reordered or rewritten, so
\* the list after a step is a prefix of the list after every later step.
C19_IntermediateListOnlyGrows == [][C19_Step]_vars

\* --------------------------------------------------------- termination
\* Runs whose model never raises, with or without a question passed in. A
\* step that can be taken is eventually taken: the interpreter and the event
\* loop keep executing a call that is not blocked.
TerminationInit ==
    /\ Init
    /\ failAt = MaxDocs
    /\ DOMAIN kwargs \subseteq {"question"}

FairSpec == TerminationInit /\ [][Next]_vars /\ WF_vars(Next)

\* every model call and every formatting call of a run over docs returns
EveryCallReturns ==
    /\ \A k \in 0..(N - 1) : ~LlmRaises(k)
    /\ \A k \in 1..N : ~FormatRaises(docs[k], document_prompt)

AllDone ==
    /\ lc_pc = "done"
    /\ cd_pc = "done"
    /\ ac_pc = "done"

\* a run that returned made one call per document, and what it returned is
\* the current answer, the output of its last call
ReturnedCurrentAnswer ==
    /\ cd_pc = "done"
           => /\ Len(cd_calls) = N
              /\ cd_result[1] = cd_res
              /\ cd_res = Last(cd_calls).output
    /\ ac_pc = "done"
           => /\ Len(ac_calls) = N
              /\ ac_result[1] = ac_res
              /\ ac_res = Last(ac_calls).output
    /\ lc_pc = "done"
           => /\ Len(lc_calls) = N
              /\ lc_result[OUTPUT_KEY] = lc_state[OUTPUT_KEY]
              /\ lc_state[OUTPUT_KEY] = Last(lc_calls).output

\* a run that returned makes no further call and keeps its result
NoCallAfterReturn ==
    /\ cd_pc = "done" => (cd_calls' = cd_calls /\ cd_result' = cd_result)
    /\ ac_pc = "done" => (ac_calls' = ac_calls /\ ac_result' = ac_result)
    /\ lc_pc = "done" => (lc_calls' = lc_calls /\ lc_result' = lc_result)

\* C17: over a non-empty list, when every model and formatting call
\* returns, each run eventually returns; it has then made exactly one call
\* per document, makes no further call, and its result is the current
\* answer.
C17_TerminatesWithCurrentAnswer ==
    /\ [](ReturnedCurrentAnswer)
    /\ [][NoCallAfterReturn]_vars
    /\ (N >= 1 /\ EveryCallReturns) ~> AllDone

\* the three runs over three documents have returned
C17_Witness ==
    /\ N >= 3
    /\ EveryCallReturns
    /\ AllDone
    /\ cd_result[1] = Last(cd_calls).output

\* ------------------------------------------------ concurrent invocations
\* acombine_docs is called with one document list while combine_docs and
\* the LCEL chain run over another; the steps of the three runs interleave
\* freely, in particular at the awaits of acombine_docs.
ConcurrentInit ==
    /\ docs \in DocLists \ {<< >>}
    /\ ac_docs \in DocLists \ {<< >>, docs}
    /\ kwargs \in {kw \in KwargSets : DOMAIN kw = {"question"}}
    /\ return_intermediate_steps = TRUE
    /\ document_prompt = <<"page_content">>
    /\ failAt = MaxDocs
    /\ values = ExampleValues(return_intermediate_steps)
    /\ rc_built = "ok"
    /\ lc_built = "ok"
    /\ document_variable_name = "context"
    /\ RunsInit

ConcurrentSpec == ConcurrentInit /\ [][Next]_vars

\* the model calls of the first n steps of combine_docs / acombine_docs over
\* ds, executed with nothing else running
RECURSIVE SoloCalls(_, _)
SoloCalls(ds, n) ==
    IF n = 0 THEN << >>
    ELSE IF n = 1
    THEN LET inputs == _construct_initial_inputs(ds, kwargs)
         IN  <<Call("initial", 0, inputs,
                    initial_llm(inputs, document_variable_name))>>
    ELSE LET prev == SoloCalls(ds, n - 1)
             inputs == Merge(_construct_refine_inputs(ds[n], Last(prev).output),
                             kwargs)
         IN  Append(prev,
                    Call("refine", n - 1, inputs,
                         refine_llm(inputs, document_variable_name,
                                    initial_response_name)))

\* a run of the imperative chain over ds is, so far, what it is alone
AsWhenAlone(ds, pc, calls, refine_steps, result) ==
    /\ calls = SoloCalls(ds, Len(calls))
    /\ refine_steps = Outputs(calls)
    /\ pc = "done"
           => /\ Len(calls) = Len(ds)
              /\ result = _construct_result(Outputs(SoloCalls(ds, Len(ds))),
                                            Last(SoloCalls(ds, Len(ds))).output)

\* the running dict of the LCEL chain after n steps executed with nothing
\* else running, the branches of refine step k taking the order orders[k]
RECURSIVE LcelSoloState(_, _, _)
LcelSoloState(input, n, orders) ==
    IF n = 0 THEN input
    ELSE IF n = 1
    THEN RunnableAssign(input,
             OUTPUT_KEY :>
                 initial_llm(_get_and_format_doc(input, document_prompt),
                             DOCUMENTS_KEY))
    ELSE refine_step(LcelSoloState(input, n - 1, orders), orders[n])

LcelAsWhenAlone ==
    \E orders \in [1..MaxDocs -> BranchOrders] :
        /\ lc_state = LcelSoloState(LcelInput, Len(lc_calls), orders)
        /\ \A k \in 1..Len(lc_calls) :
               lc_calls[k].inputs =
                   _get_and_format_doc(LcelSoloState(LcelInput, k - 1, orders),
                                       document_prompt)
        /\ lc_pc = "done"
               => lc_result = RunnablePick(
                      LcelSoloState(LcelInput, Len(docs), orders),
                      {OUTPUT_KEY, INTERMEDIATE_STEPS_KEY})

\* C15: runs over distinct document lists whose steps interleave do not
\* affect each other: each run's model inputs, intermediate list and final
\* output are those of the same run executed alone.
C15_RunsShareNoState ==
    /\ AsWhenAlone(docs, cd_pc, cd_calls, cd_refine_steps, cd_result)
    /\ AsWhenAlone(ac_docs, ac_pc, ac_calls, ac_refine_steps, ac_result)
    /\ LcelAsWhenAlone

\* acombine_docs is suspended in its second refine call while combine_docs,
\* started after it over another list, has already returned
C15_Witness ==
    /\ ac_docs # docs
    /\ ac_pc = "await_refine"
    /\ Len(ac_calls) = 2
    /\ cd_pc = "done"
    /\ Len(cd_calls) >= 2
    /\ lc_pc = "refine"

====
